---- MODULE Spec2Model ----
(***************************************************************************)
(* Model of the playback core of src/src/core/player.py (class MediaPlayer)*)
(* : the transport commands issued on the caller (GUI) thread and the      *)
(* scheduler loop (_playback_loop) running on a background thread.        *)
(*                                                                         *)
(* Time is counted in milliseconds.  The wall clock and _start_time are    *)
(* only ever used through the difference time.time() - self._start_time,  *)
(* which is the variable `elapsed`.  While _is_paused is set that          *)
(* difference is never read (time_pos returns _pause_time, and play() and  *)
(* seek() assign _start_time before anything reads it again), so `elapsed` *)
(* is not advanced while paused.                                           *)
(*                                                                         *)
(* The audio sink (src/src/core/audio_player.py, class AudioPlayer) is the *)
(* record `sink`; its methods are operators from a sink to a sink, applied *)
(* by the transport commands where MediaPlayer calls them.  Every method   *)
(* of the sink returns at once while no audio is loaded, so the sink stays *)
(* as constructed for as long as the files loaded have no audio stream.    *)
(***************************************************************************)
EXTENDS Integers, Sequences, FiniteSets, TLC

\* ---- bounds of the model ------------------------------------------------
MaxCmds == 5          \* transport commands issued by the caller
MaxStall == 6         \* steps of elapsed time up to which an idle Tick may still fire
MaxThreads == 2       \* scheduler threads ever started
MaxContainers == 2    \* containers ever opened

\* ---- program constants, times in ms, speeds in tenths ----------------------
SleepCap == 100       \* min(..., 0.1)
LateThreshold == 500  \* time_diff < -0.5
SyncThreshold == 1    \* time_diff > 0.001
SpeedMin == 1         \* max(0.1, ...)
SpeedMax == 40        \* min(speed, 4.0)
NormalSpeed == 10     \* self._playback_speed = 1.0
VolumeMin == 0        \* max(0, ...)
VolumeMax == 100      \* min(100, value); also the initial volume

\* the grain of the inputs and of a stall, in ms
Step == 100

\* ---- the media file (input) ---------------------------------------------
\* The clip as the demuxer yields it: one entry per packet, each the pts of
\* the frames packet.decode() returns for it.
Packets == << <<0>>, <<100, 200>> >>
\* packets that start at a keyframe
KeyPackets == {1, 2}
\* stream duration * time base
ClipDuration == 300
\* paths handed to load_file
Paths == {"clip", "missing"}
\* "clip" and "long" are videos without an audio stream.  "sound" is "clip"
\* with an audio stream of the same length; "garbled" has an audio stream
\* whose extraction raises.
AudioPaths == {"sound", "clip", "garbled"}
HasAudioStream(path) == path \in {"sound", "garbled"}
ExtractionRaises(path) == path = "garbled"
AudioLength(path) == IF path = "sound" THEN ClipDuration ELSE 0
\* the value AudioPlayer.load returns for a path that exists
SinkLoadOk(path) == HasAudioStream(path) /\ ~ExtractionRaises(path)
\* values assigned to MediaPlayer.volume
VolumeArgs == {-10, 40, 150}
\* arguments handed to set_speed, in tenths
SpeedArgs == {-10, 0, 5, 20, 50}
\* arguments handed to seek while the sink is watched
SinkSeekArgs == {0, Step, 2 * Step}
\* arguments handed to seek
SeekArgs == {Step * k : k \in -1 .. 4}

NumPackets == Len(Packets)

\* a longer file, ten frames at 10 fps
LongPackets == << <<0>>, <<100, 200>>, <<300>>, <<400>>, <<500, 600>>,
                 <<700>>, <<800>>, <<900>> >>
LongKeyPackets == {1, 2, 5}
LongDuration == 1000

\* what av.open(path) gives
PacketsOf(path) == IF path = "long" THEN LongPackets ELSE Packets
KeysOf(path) == IF path = "long" THEN LongKeyPackets ELSE KeyPackets
DurationOf(path) == IF path = "long" THEN LongDuration ELSE ClipDuration
\* Path(filepath).exists()
Exists(path) == path # "missing"

Min(a, b) == IF a < b THEN a ELSE b
Max(a, b) == IF a > b THEN a ELSE b
\* a / b rounded up to the next whole ms (a >= 0, b > 0)
CeilDiv(a, b) == (a + b - 1) \div b

VARIABLES
    _container,      \* handle of the open container, 0 for None
    source,          \* per container handle: the path it was opened from
    isOpen,          \* per container handle: not closed
    pos,             \* per container handle: index of the next packet demux yields
    nOpened,         \* container handles created so far
    _duration,
    _is_playing,
    _is_paused,
    _stop_flag,
    elapsed,         \* time.time() - self._start_time
    _pause_time,
    _playback_speed, \* in tenths
    _volume,         \* MediaPlayer._volume
    sink,            \* the AudioPlayer and the pygame mixer behind it
    pausedIsBusy,    \* the pygame build: get_busy() is True for paused music
                     \* (before pygame 2.0.1) or False (since)
    threads,         \* per scheduler thread: position in _playback_loop and its locals
    nThreads,        \* threads started so far; _playback_thread is the last one
    caller,          \* what the caller thread is blocked in (the join of stop())
    cmds,            \* commands issued so far
    lastCmd,         \* history: the last command issued
    lastSeek,        \* history: target of the last seek since the last stop/load
    pausedAt,        \* history: clock position at a pause() made while Playing
    emitted          \* the signals emitted by the step just taken, or a note
                     \* of the frame it dropped

\* the settings that the transport commands and the scheduler loop never write
knobs == << _playback_speed, _volume, pausedIsBusy >>
aside == << knobs, sink >>

vars == << _container, source, isOpen, pos, nOpened, _duration, _is_playing,
           _is_paused, _stop_flag, elapsed, _pause_time, threads, nThreads,
           caller, cmds, lastCmd, lastSeek, pausedAt, emitted, aside >>

Tids == 1 .. MaxThreads
Cids == 1 .. MaxContainers

NoThread == [pc |-> "unborn", c |-> 0, pk |-> 0, frames |-> << >>,
             sleepFor |-> 0, stale |-> FALSE, why |-> "none", ended |-> 0]

Idle == [op |-> "idle", arg |-> "none"]

\* ---- pure helpers ---------------------------------------------------------

\* MediaPlayer.time_pos
TimePos ==
    IF _is_playing /\ ~_is_paused THEN elapsed
    ELSE IF _is_paused THEN _pause_time
    ELSE 0

\* MediaPlayer.is_playing
IsPlaying == _is_playing /\ ~_is_paused

\* container.seek(target, stream=...) : the last keyframe packet whose first
\* frame is at or before the target
FirstPts(k) ==
    LET pk == PacketsOf(source[_container])[k]
    IN  IF pk = << >> THEN 0 ELSE Head(pk)
SeekPos(target) ==
    LET cands == {k \in KeysOf(source[_container]) : FirstPts(k) <= target}
    IN  IF cands = {} THEN 1
        ELSE CHOOSE k \in cands : \A j \in cands : j <= k

\* Thread.is_alive()
Alive(t) == threads[t].pc \notin {"unborn", "exited"}

\* self._playback_thread and self._playback_thread.is_alive()
JoinNeeded == IF nThreads = 0 THEN FALSE ELSE Alive(nThreads)

\* a thread that holds a packet or frames it took from container c
Holding(t, c) ==
    /\ threads[t].c = c
    /\ threads[t].pc \in {"paused", "frame", "sleep"}
    /\ (threads[t].pc = "frame" => threads[t].frames # << >>)

FrameSig(t, p) == [sig |-> "frame_ready", t |-> t, pts |-> p,
                   stale |-> threads[t].stale, floor |-> lastSeek]
DropNote(t, p) == [sig |-> "dropped", t |-> t, pts |-> p,
                   stale |-> threads[t].stale, floor |-> lastSeek]
EndedSig(t) == [sig |-> "playback_ended", t |-> t, pts |-> 0,
                stale |-> FALSE, floor |-> -1]

\* ---- the audio sink -------------------------------------------------------

\* AudioPlayer.__init__ and the mixer after pygame.mixer.init.  music is the
\* file whose audio the mixer holds, segStart the offset given to
\* music.play(start=...), played the time played since (get_pos).
NewSink == [is_loaded |-> FALSE, start_position |-> 0, pause_position |-> 0,
            volume |-> VolumeMax, is_muted |-> FALSE,
            music |-> "none", mixer |-> "idle", segStart |-> 0, played |-> 0,
            gain |-> VolumeMax]

\* pygame.mixer.music.get_busy()
GetBusy(s) == s.mixer = "playing" \/ (s.mixer = "paused" /\ pausedIsBusy)
\* pygame.mixer.music.get_pos()
GetPos(s) == IF s.mixer = "idle" THEN -1 ELSE s.played
\* pygame.mixer.music.stop()
MusicStop(s) == [s EXCEPT !.mixer = "idle", !.segStart = 0, !.played = 0]
\* pygame.mixer.music.play(start=...)
MusicPlay(s, start) ==
    IF s.music = "none" \/ start >= AudioLength(s.music)
    THEN MusicStop(s)
    ELSE [s EXCEPT !.mixer = "playing", !.segStart = start, !.played = 0]
\* the offset in its file at which the mixer is putting out sound
OutPos(s) == s.segStart + s.played

\* AudioPlayer.is_playing
SinkIsPlaying(s) == s.is_loaded /\ GetBusy(s)
\* AudioPlayer.position
SinkPosition(s) ==
    IF ~s.is_loaded THEN 0
    ELSE IF GetPos(s) >= 0 THEN s.start_position + GetPos(s)
    ELSE s.pause_position

\* _set_pygame_volume with a slip: the mute flag is not looked at
SetPygameVolume_IgnoresMute(s) == [s EXCEPT !.gain = s.volume]

\* AudioPlayer._set_pygame_volume; the gain is kept in percent
SetPygameVolume(s) == [s EXCEPT !.gain = IF s.is_muted THEN 0 ELSE s.volume]

\* max(0, min(100, value)) with a slip: the lower limit is missing
ClampVolume_NoFloor(value) == Min(VolumeMax, value)

\* max(0, min(100, value))
ClampVolume(value) == Max(VolumeMin, Min(VolumeMax, value))

\* AudioPlayer.stop
SinkStop(s) ==
    IF ~s.is_loaded THEN s
    ELSE [MusicStop(s) EXCEPT !.start_position = 0, !.pause_position = 0]

\* AudioPlayer.play
SinkPlay(s) ==
    IF ~s.is_loaded THEN s
    ELSE IF GetBusy(s) /\ s.pause_position > 0
    THEN \* music.unpause()
         [s EXCEPT !.mixer = IF @ = "paused" THEN "playing" ELSE @]
    ELSE MusicPlay(s, s.start_position)

\* AudioPlayer.pause
SinkPause(s) ==
    IF ~s.is_loaded THEN s
    ELSE [s EXCEPT !.pause_position = SinkPosition(s),
                   !.mixer = IF @ = "playing" THEN "paused" ELSE @]

\* AudioPlayer.seek
SinkSeek(s, position_ms) ==
    IF ~s.is_loaded THEN s
    ELSE LET moved == [s EXCEPT !.start_position = position_ms,
                                !.pause_position = position_ms]
         IN  IF SinkIsPlaying(s) THEN MusicPlay(MusicStop(moved), position_ms)
             ELSE MusicStop(moved)

\* AudioPlayer.set_volume
SinkSetVolume(s, volume) == SetPygameVolume([s EXCEPT !.volume = ClampVolume(volume)])

\* AudioPlayer.set_muted
SinkSetMuted(s, muted) == SetPygameVolume([s EXCEPT !.is_muted = muted])

\* toggle_mute with a slip: it mutes whatever the state was
SinkToggleMute_AlwaysMutes(s) == SinkSetMuted(s, TRUE)

\* AudioPlayer.toggle_mute
SinkToggleMute(s) == SinkSetMuted(s, ~s.is_muted)

\* AudioPlayer.load of a path that exists: the direct music.load fails for a
\* video file and the audio track is extracted
SinkLoad(s, path) ==
    LET stopped == SinkStop(s) IN
    IF ~HasAudioStream(path)
    THEN \* _extract_and_load_audio returns False: "No audio stream found"
         stopped
    ELSE IF ExtractionRaises(path)
    THEN [stopped EXCEPT !.is_loaded = FALSE]
    ELSE SetPygameVolume([stopped EXCEPT !.is_loaded = TRUE, !.music = path,
                              !.mixer = "idle", !.segStart = 0, !.played = 0,
                              !.start_position = 0, !.pause_position = 0])

\* the mixer plays on for dt ms; the music ends at the end of its file
SinkAdvance(s, dt) ==
    IF s.mixer # "playing" THEN s
    ELSE IF OutPos(s) + dt >= AudioLength(s.music) THEN MusicStop(s)
    ELSE [s EXCEPT !.played = @ + dt]

\* ---- the player -----------------------------------------------------------

\* MediaPlayer.__init__
Constructed ==
    /\ _container = 0
    /\ source = [c \in Cids |-> "none"]
    /\ isOpen = [c \in Cids |-> FALSE]
    /\ pos = [c \in Cids |-> 1]
    /\ nOpened = 0
    /\ _duration = 0
    /\ _is_playing = FALSE
    /\ _is_paused = TRUE
    /\ _stop_flag = FALSE
    /\ elapsed = 0
    /\ _pause_time = 0
    /\ _playback_speed = NormalSpeed
    /\ _volume = VolumeMax
    /\ sink = NewSink
    /\ threads = [t \in Tids |-> NoThread]
    /\ nThreads = 0
    /\ caller = Idle
    /\ cmds = 0
    /\ lastCmd = "none"
    /\ lastSeek = -1
    /\ pausedAt = -1
    /\ emitted = << >>

\* No file played has an audio stream, so get_busy() is never asked about
\* paused music.
Init == Constructed /\ pausedIsBusy = FALSE

\* ---- transport commands (caller thread) ----------------------------------

CanCall == caller = Idle /\ cmds < MaxCmds

\* the test with a slip: play() goes ahead without a container
NothingToPlay_Never == FALSE

\* if not self._container: return
NothingToPlay == _container = 0

\* MediaPlayer.play
Play ==
    /\ CanCall
    /\ (~NothingToPlay /\ ~_is_playing) => nThreads < MaxThreads
    /\ cmds' = cmds + 1
    /\ lastCmd' = "play"
    /\ pausedAt' = -1
    /\ emitted' = << >>
    /\ IF NothingToPlay
       THEN UNCHANGED << _is_paused, _is_playing, _stop_flag, elapsed, threads,
                         nThreads, sink >>
       ELSE /\ _is_paused' = FALSE
            /\ sink' = SinkPlay(sink)
            /\ IF ~_is_playing
               THEN /\ _is_playing' = TRUE
                    /\ _stop_flag' = FALSE
                    /\ elapsed' = 0
                    /\ nThreads' = nThreads + 1
                    /\ threads' = [threads EXCEPT ![nThreads + 1] =
                                       [NoThread EXCEPT !.pc = "demux"]]
               ELSE /\ elapsed' = _pause_time
                    /\ UNCHANGED << _is_playing, _stop_flag, threads, nThreads >>
    /\ UNCHANGED << knobs, _container, source, isOpen, pos, nOpened, _duration,
                    _pause_time, caller, lastSeek >>

\* MediaPlayer.pause
Pause ==
    /\ CanCall
    /\ cmds' = cmds + 1
    /\ lastCmd' = "pause"
    /\ emitted' = << >>
    /\ IF ~_is_paused
       THEN /\ _is_paused' = TRUE
            /\ _pause_time' = elapsed
            /\ pausedAt' = IF _is_playing THEN elapsed ELSE -1
            /\ elapsed' = 0
            /\ sink' = SinkPause(sink)
       ELSE UNCHANGED << _is_paused, _pause_time, pausedAt, elapsed, sink >>
    /\ UNCHANGED << knobs, _container, source, isOpen, pos, nOpened, _duration,
                    _is_playing, _stop_flag, threads, nThreads, caller, lastSeek >>

\* target_seconds of MediaPlayer.seek
SeekTarget(seconds, relative) ==
    LET base == IF relative THEN TimePos ELSE 0
    IN  Max(0, Min(base + seconds, _duration))

\* MediaPlayer.seek
Seek(seconds, relative) ==
    /\ CanCall
    /\ cmds' = cmds + 1
    /\ lastCmd' = "seek"
    /\ emitted' = << >>
    /\ IF _container = 0
       THEN UNCHANGED << pos, elapsed, lastSeek, pausedAt, threads, sink >>
       ELSE LET target == SeekTarget(seconds, relative) IN
            /\ pos' = [pos EXCEPT ![_container] = SeekPos(target)]
            /\ sink' = SinkSeek(sink, target)
            /\ elapsed' = IF ~_is_paused THEN target ELSE elapsed
            /\ lastSeek' = target
            /\ pausedAt' = -1
            /\ threads' = [t \in Tids |->
                              IF Holding(t, _container)
                              THEN [threads[t] EXCEPT !.stale = TRUE]
                              ELSE threads[t]]
    /\ UNCHANGED << knobs, _container, source, isOpen, nOpened, _duration,
                    _is_playing, _is_paused, _stop_flag, _pause_time, nThreads,
                    caller >>

\* max(0.1, min(speed, 4.0)) with a slip: the upper limit is missing
ClampSpeed_NoCeiling(speed) == Max(SpeedMin, speed)

\* max(0.1, min(speed, 4.0))
ClampSpeed(speed) == Max(SpeedMin, Min(speed, SpeedMax))

\* a rate change that restarts the music from the stored offset
SinkSetPlaybackRate_Restarts(s, rate) == SinkStop(s)

\* AudioPlayer.set_playback_rate: pygame has no rate control, the call only
\* logs the request
SinkSetPlaybackRate(s, rate) == s

\* MediaPlayer.set_speed
SetSpeed(speed) ==
    /\ CanCall
    /\ cmds' = cmds + 1
    /\ lastCmd' = "set_speed"
    /\ emitted' = << >>
    /\ _playback_speed' = ClampSpeed(speed)
    /\ sink' = SinkSetPlaybackRate(sink, ClampSpeed(speed))
    /\ UNCHANGED << _volume, pausedIsBusy, _container, source, isOpen, pos, nOpened, _duration,
                    _is_playing, _is_paused, _stop_flag, elapsed, _pause_time,
                    threads, nThreads, caller, lastSeek, pausedAt >>

\* MediaPlayer.volume (setter)
SetVolume(value) ==
    /\ CanCall
    /\ cmds' = cmds + 1
    /\ lastCmd' = "volume"
    /\ emitted' = << >>
    /\ _volume' = ClampVolume(value)
    /\ sink' = SinkSetVolume(sink, ClampVolume(value))
    /\ UNCHANGED << _playback_speed, pausedIsBusy, _container, source, isOpen,
                    pos, nOpened, _duration, _is_playing, _is_paused, _stop_flag,
                    elapsed, _pause_time, threads, nThreads, caller, lastSeek,
                    pausedAt >>

\* MediaPlayer.muted (setter)
SetMuted(value) ==
    /\ CanCall
    /\ cmds' = cmds + 1
    /\ lastCmd' = "muted"
    /\ emitted' = << >>
    /\ sink' = SinkSetMuted(sink, value)
    /\ UNCHANGED << knobs, _container, source, isOpen, pos, nOpened, _duration,
                    _is_playing, _is_paused, _stop_flag, elapsed, _pause_time,
                    threads, nThreads, caller, lastSeek, pausedAt >>

\* MediaPlayer.toggle_mute
ToggleMute ==
    /\ CanCall
    /\ cmds' = cmds + 1
    /\ lastCmd' = "toggle_mute"
    /\ emitted' = << >>
    /\ sink' = SinkToggleMute(sink)
    /\ UNCHANGED << knobs, _container, source, isOpen, pos, nOpened, _duration,
                    _is_playing, _is_paused, _stop_flag, elapsed, _pause_time,
                    threads, nThreads, caller, lastSeek, pausedAt >>

\* MediaPlayer.stop up to the join: the flags are set and the caller waits
\* for the scheduler thread.  op is the operation that called stop().
StopCall(op, arg) ==
    /\ CanCall
    /\ cmds' = cmds + 1
    /\ lastCmd' = op
    /\ _is_playing' = FALSE
    /\ _is_paused' = TRUE
    /\ _stop_flag' = TRUE
    /\ caller' = [op |-> op, arg |-> arg]
    /\ pausedAt' = -1
    /\ lastSeek' = -1
    /\ emitted' = << >>
    /\ elapsed' = 0
    /\ sink' = SinkStop(sink)
    /\ UNCHANGED << knobs, _container, source, isOpen, pos, nOpened, _duration,
                    _pause_time, threads, nThreads >>

Stop == StopCall("stop", "none")

\* MediaPlayer.load_file begins with stop()
Load(p) ==
    /\ Exists(p) => nOpened < MaxContainers
    /\ StopCall("load", p)

LoadFile == \E p \in Paths : Load(p)

\* MediaPlayer.shutdown begins with stop()
Shutdown == StopCall("shutdown", "none")

\* The rest of stop() after the join (container.seek(0)), followed by the
\* rest of the operation that called it.
StopReturn ==
    LET c == _container
        rewound == IF c # 0 THEN [pos EXCEPT ![c] = 1] ELSE pos
    IN
    /\ caller' = Idle
    /\ emitted' = << >>
    /\ IF caller.op = "load" /\ Exists(caller.arg)
       THEN \* av.open, stream selection, duration
            /\ nOpened' = nOpened + 1
            /\ _container' = nOpened + 1
            /\ source' = [source EXCEPT ![nOpened + 1] = caller.arg]
            /\ isOpen' = [isOpen EXCEPT ![nOpened + 1] = TRUE]
            /\ pos' = [rewound EXCEPT ![nOpened + 1] = 1]
            /\ _duration' = DurationOf(caller.arg)
            \* a load of the audio that fails is only logged
            /\ sink' = SinkSetVolume(SinkLoad(sink, caller.arg), _volume)
       ELSE IF caller.op = "shutdown"
       THEN \* AudioPlayer.shutdown, container.close()
            /\ sink' = SinkStop(sink)
            /\ _container' = 0
            /\ isOpen' = IF c # 0 THEN [isOpen EXCEPT ![c] = FALSE] ELSE isOpen
            /\ pos' = rewound
            /\ UNCHANGED << source, nOpened, _duration >>
       ELSE \* plain stop(), or load_file of a path that does not exist
            /\ pos' = rewound
            /\ UNCHANGED << _container, source, isOpen, nOpened, _duration, sink >>
    /\ UNCHANGED << knobs, _is_playing, _is_paused, _stop_flag, elapsed,
                    _pause_time, threads, nThreads, cmds, lastCmd, lastSeek,
                    pausedAt >>

\* the join returns because the thread is not (or no longer) alive
JoinDone ==
    /\ caller # Idle
    /\ ~JoinNeeded
    /\ StopReturn

\* The join waits 1 s.  A pacing sleep lasts at most 100 ms and a paused poll
\* 10 ms, after which the loop reaches its next stop check; only the call
\* into the demuxer (a read from disk or network) can keep the thread away
\* from a stop check for longer than the timeout.
MayStall(t) == threads[t].pc = "demux"

\* the join returns on its timeout, the thread still alive
JoinTimeout ==
    /\ caller # Idle
    /\ JoinNeeded
    /\ MayStall(nThreads)
    /\ StopReturn

\* ---- the scheduler loop (background thread) -------------------------------

\* EmitsEnded with a slip: the signal is emitted on the break path only, not
\* when the stream runs out
EmitsEnded_OnBreakOnly(why) == why = "stop"

\* whether the code after the for loop emits playback_ended
EmitsEnded(why) == why # "error"

\* The loop is left: by exhaustion of demux ("eos"), by a break ("stop"), or
\* by an exception ("error").
Finish(t, why) ==
    /\ threads' = [threads EXCEPT ![t] =
                      [NoThread EXCEPT !.pc = "exited", !.why = why,
                                       !.ended = IF EmitsEnded(why) THEN 1 ELSE 0]]
    /\ _is_playing' = FALSE
    /\ emitted' = IF EmitsEnded(why) THEN << EndedSig(t) >> ELSE << >>

\* for packet in self._container.demux(...): fetch the next packet, then the
\* stop check, the entry of the paused wait, and packet.decode() when the
\* loop does not have to wait
Demux(t) ==
    /\ threads[t].pc = "demux"
    /\ LET c == IF threads[t].c = 0 THEN _container ELSE threads[t].c IN
       IF c = 0
       THEN Finish(t, "error") /\ UNCHANGED pos
       ELSE IF ~isOpen[c]
       THEN Finish(t, "error") /\ UNCHANGED pos
       ELSE IF pos[c] > Len(PacketsOf(source[c]))
       THEN Finish(t, "eos") /\ UNCHANGED pos
       ELSE /\ pos' = [pos EXCEPT ![c] = @ + 1]
            /\ IF _stop_flag \/ ~_is_playing
               THEN Finish(t, "stop")
               ELSE /\ threads' = [threads EXCEPT ![t] =
                                      IF _is_paused
                                      THEN [@ EXCEPT !.c = c, !.pk = pos[c],
                                                     !.stale = FALSE,
                                                     !.pc = "paused"]
                                      ELSE [@ EXCEPT !.c = c, !.stale = FALSE,
                                                     !.pc = "frame",
                                                     !.frames = PacketsOf(source[c])[pos[c]]]]
                    /\ emitted' = << >>
                    /\ UNCHANGED _is_playing
    /\ UNCHANGED << aside, _container, source, isOpen, nOpened, _duration, _is_paused, _stop_flag,
                    elapsed, _pause_time, nThreads, caller, cmds, lastCmd,
                    lastSeek, pausedAt >>

\* while self._is_paused and not stop: sleep(0.01) -- the wait is left, and
\* the held packet is decoded
LeavePoll(t) ==
    /\ threads[t].pc = "paused"
    /\ ~_is_paused \/ _stop_flag
    /\ IF _stop_flag
       THEN Finish(t, "stop")
       ELSE /\ threads' = [threads EXCEPT ![t].pc = "frame", ![t].pk = 0,
                                          ![t].frames =
                                              PacketsOf(source[threads[t].c])[threads[t].pk]]
            /\ emitted' = << >>
            /\ UNCHANGED _is_playing
    /\ UNCHANGED << aside, _container, source, isOpen, pos, nOpened, _duration, _is_paused,
                    _stop_flag, elapsed, _pause_time, nThreads, caller, cmds,
                    lastCmd, lastSeek, pausedAt >>

\* the pacing sleep for a frame that is time_diff ahead of the clock; the
\* sleep lasts at least the time asked for, here to the next whole ms
SleepTime(time_diff) ==
    Min(CeilDiv(time_diff * NormalSpeed, _playback_speed), SleepCap)

\* Pacing with a slip: a late frame is delivered, never dropped
Pacing_NeverDrops(time_diff) ==
    IF time_diff > SyncThreshold THEN "sleep" ELSE "deliver"

\* what the loop does with a decoded frame that is time_diff ahead of (or,
\* when negative, behind) the clock
Pacing(time_diff) ==
    IF time_diff > SyncThreshold THEN "sleep"
    ELSE IF time_diff < -LateThreshold THEN "drop"
    ELSE "deliver"

\* one pass of the inner loop up to its sleep: stop check, timing decision,
\* and delivery or drop when no sleep is needed
NextFrame(t) ==
    /\ threads[t].pc = "frame"
    /\ IF threads[t].frames = << >>
       THEN \* the packet is used up
            /\ threads' = [threads EXCEPT ![t].pc = "demux", ![t].stale = FALSE]
            /\ emitted' = << >>
       ELSE IF _stop_flag \/ ~_is_playing
       THEN \* break of the inner loop only: the outer loop goes on
            /\ threads' = [threads EXCEPT ![t].pc = "demux", ![t].frames = << >>,
                                          ![t].stale = FALSE]
            /\ emitted' = << >>
       ELSE LET frame_pts == Head(threads[t].frames)
                time_diff == frame_pts - TimePos
            IN  IF Pacing(time_diff) = "sleep"
                THEN /\ threads' = [threads EXCEPT ![t].pc = "sleep",
                                        ![t].sleepFor = SleepTime(time_diff)]
                     /\ emitted' = << >>
                ELSE IF Pacing(time_diff) = "drop"
                THEN \* continue: the frame is dropped
                     /\ threads' = [threads EXCEPT ![t].frames = Tail(@)]
                     /\ emitted' = << DropNote(t, frame_pts) >>
                ELSE /\ threads' = [threads EXCEPT ![t].frames = Tail(@)]
                     /\ emitted' = << FrameSig(t, frame_pts) >>
    /\ UNCHANGED << aside, _container, source, isOpen, pos, nOpened, _duration, _is_playing,
                    _is_paused, _stop_flag, elapsed, _pause_time, nThreads,
                    caller, cmds, lastCmd, lastSeek, pausedAt >>

\* time.sleep(sleep_time) returns and the frame is delivered
Wake(t) ==
    /\ threads[t].pc = "sleep"
    /\ elapsed' = IF _is_paused THEN elapsed ELSE elapsed + threads[t].sleepFor
    /\ sink' = SinkAdvance(sink, threads[t].sleepFor)
    /\ threads' = [threads EXCEPT ![t].pc = "frame", ![t].sleepFor = 0,
                                  ![t].frames = Tail(@)]
    /\ emitted' = << FrameSig(t, Head(threads[t].frames)) >>
    /\ UNCHANGED << knobs, _container, source, isOpen, pos, nOpened, _duration, _is_playing,
                    _is_paused, _stop_flag, _pause_time, nThreads, caller, cmds,
                    lastCmd, lastSeek, pausedAt >>

\* frame.to_ndarray raises for a frame that cannot be converted: the
\* exception leaves both loops and is caught by the except clause
DecodeError(t) ==
    /\ threads[t].pc = "frame"
    /\ threads[t].frames # << >>
    /\ _is_playing /\ ~_stop_flag
    /\ Finish(t, "error")
    /\ UNCHANGED << aside, _container, source, isOpen, pos, nOpened, _duration,
                    _is_paused, _stop_flag, elapsed, _pause_time, nThreads,
                    caller, cmds, lastCmd, lastSeek, pausedAt >>

ThreadStep(t) == Demux(t) \/ LeavePoll(t) \/ NextFrame(t) \/ Wake(t)

\* wall-clock time passes while nothing else happens (a stall)
Tick ==
    /\ ~_is_paused \/ sink.mixer = "playing"
    /\ ~_is_paused => elapsed < MaxStall * Step
    /\ elapsed' = IF _is_paused THEN elapsed ELSE elapsed + Step
    /\ sink' = SinkAdvance(sink, Step)
    /\ emitted' = << >>
    /\ UNCHANGED << knobs, _container, source, isOpen, pos, nOpened, _duration, _is_playing,
                    _is_paused, _stop_flag, _pause_time, threads, nThreads,
                    caller, cmds, lastCmd, lastSeek, pausedAt >>

Next ==
    \/ Play
    \/ Pause
    \/ \E s \in SeekArgs, r \in BOOLEAN : Seek(s, r)
    \/ Stop
    \/ LoadFile
    \/ Shutdown
    \/ JoinDone
    \/ JoinTimeout
    \/ \E t \in Tids : Demux(t)
    \/ \E t \in Tids : LeavePoll(t)
    \/ \E t \in Tids : NextFrame(t)
    \/ \E t \in Tids : Wake(t)
    \/ Tick

Spec == Init /\ [][Next]_vars

TypeOK ==
    /\ _container \in 0 .. MaxContainers
    /\ nOpened \in 0 .. MaxContainers
    /\ _duration \in {0, ClipDuration, LongDuration}
    /\ _playback_speed \in SpeedMin .. SpeedMax
    /\ _volume \in VolumeMin .. VolumeMax
    /\ pausedIsBusy \in BOOLEAN
    /\ sink.mixer \in {"idle", "playing", "paused"}
    /\ sink.music \in {"none"} \cup AudioPaths
    /\ sink.played \in Nat /\ sink.segStart \in Nat
    /\ _is_playing \in BOOLEAN /\ _is_paused \in BOOLEAN /\ _stop_flag \in BOOLEAN
    /\ elapsed \in Nat /\ _pause_time \in Nat
    /\ nThreads \in 0 .. MaxThreads
    /\ \A t \in Tids : threads[t].pc \in {"unborn", "demux", "paused", "frame", "sleep", "exited"}
    /\ cmds \in 0 .. MaxCmds
    /\ Len(emitted) <= 1

\* playback of a file with frames that fail to decode
ErrNext ==
    \/ Next
    \/ \E t \in Tids : DecodeError(t)

ErrSpec == Init /\ [][ErrNext]_vars

\* uninterrupted playback of the longer file at a chosen speed: no pause, no
\* seek, and no time lost outside the pacing sleeps
PaceNext ==
    \/ Load("long")
    \/ \E x \in SpeedArgs : SetSpeed(x)
    \/ Play
    \/ JoinDone
    \/ \E t \in Tids : Demux(t)
    \/ \E t \in Tids : NextFrame(t)
    \/ \E t \in Tids : Wake(t)

PaceSpec == Init /\ [][PaceNext]_vars

\* The sink under the transport commands, for files with and without audio
\* and for either pygame build; the scheduler loop is left waiting in demux.
SinkInit == Constructed /\ pausedIsBusy \in BOOLEAN

SinkNext ==
    \/ \E p \in AudioPaths : Load(p)
    \/ Play
    \/ Pause
    \/ \E s \in SinkSeekArgs : Seek(s, FALSE)
    \/ Stop
    \/ JoinDone
    \/ JoinTimeout
    \/ Tick

SinkSpec == SinkInit /\ [][SinkNext]_vars

\* the sink under speed changes
RateNext ==
    \/ \E p \in AudioPaths : Load(p)
    \/ \E x \in SpeedArgs : SetSpeed(x)
    \/ Play
    \/ Pause
    \/ JoinDone
    \/ Tick

RateSpec == SinkInit /\ [][RateNext]_vars

\* volume and mute
VolumeNext ==
    \/ \E p \in AudioPaths : Load(p)
    \/ \E v \in VolumeArgs : SetVolume(v)
    \/ \E b \in BOOLEAN : SetMuted(b)
    \/ ToggleMute
    \/ Play
    \/ JoinDone

VolumeSpec == Init /\ [][VolumeNext]_vars

\* The scheduler thread keeps running when it can take a step, and a join
\* returns (the thread has exited, or the timeout has run out).
FairSpec ==
    /\ Spec
    /\ \A t \in Tids : WF_vars(ThreadStep(t))
    /\ WF_vars(JoinDone \/ JoinTimeout)

\* ---- claims ----------------------------------------------------------------

PlayStep == lastCmd' = "play" /\ cmds' = cmds + 1
SeekStep == lastCmd' = "seek" /\ cmds' = cmds + 1 /\ _container # 0
FramesEmitted == {emitted[i] : i \in {j \in 1 .. Len(emitted) : emitted[j].sig = "frame_ready"}}
EndedEmitted == {emitted[i] : i \in {j \in 1 .. Len(emitted) : emitted[j].sig = "playback_ended"}}

\* C1: play() while already Playing (loop running, not paused) leaves the
\* clock origin alone: elapsed (time.time() - _start_time) and time_pos are
\* the same right after the call as right before it.
C1_PlayWhilePlayingIsNoOp ==
    [][ (PlayStep /\ _container # 0 /\ _is_playing /\ ~_is_paused /\ JoinNeeded)
            => (elapsed' = elapsed /\ TimePos' = TimePos) ]_vars

\* C2: right after seek(s) with media loaded time_pos reads s, in every
\* state; and after a seek made while Paused the next play() resumes the
\* clock from s.
C2_SeekSetsClock ==
    [][ /\ SeekStep => TimePos' = lastSeek'
        /\ (PlayStep /\ lastCmd = "seek" /\ lastSeek >= 0 /\ _is_playing /\ _is_paused)
              => TimePos' = lastSeek ]_vars

\* C3: no frame_ready is emitted for a frame that the loop had demuxed before
\* a seek() that has returned since.
C3_NoStaleFrameAfterSeek ==
    \A f \in FramesEmitted : ~f.stale

\* C4: every frame demuxed and delivered after seek(s) has pts >= s.
C4_FramesNotBeforeSeekTarget ==
    \A f \in FramesEmitted : (f.floor >= 0 /\ ~f.stale) => f.pts >= f.floor

\* C5: once stop() has returned, time_pos is 0 until the next command.
C5_StopResetsPosition ==
    (lastCmd = "stop" /\ caller = Idle) => TimePos = 0

\* C6: after a pause() made while Playing at position p, time_pos stays p
\* during the pause, and right after the next play() (no seek or stop in
\* between) time_pos is p again.
C6_PauseResumeRoundTrip ==
    [][ /\ pausedAt >= 0 => TimePos = pausedAt
        /\ (PlayStep /\ pausedAt >= 0) => TimePos' = pausedAt ]_vars

\* the loop waits in its paused poll
Parked(t) == threads[t].pc = "paused" /\ _is_paused /\ ~_stop_flag

\* C7: a loop that ran to the end of the stream has emitted playback_ended
\* exactly once, is_playing is False when the signal is emitted, and a loop
\* that was started does not hang: unless it waits in the paused poll it
\* reaches its end.
C7_EndedOnceAtNaturalEnd ==
    /\ [](\A t \in Tids : threads[t].why = "eos" => threads[t].ended = 1)
    /\ [](\A e \in EndedEmitted : ~IsPlaying)
    /\ \A t \in Tids : Alive(t) ~> (~Alive(t) \/ Parked(t))

\* a run with a seek on the way reached the end of the stream and emitted
\* playback_ended
C7_Witness ==
    \E e \in EndedEmitted :
        /\ threads[e.t].why = "eos"
        /\ threads[e.t].ended = 1
        /\ lastSeek >= 0
        /\ ~IsPlaying

\* C8: playback_ended is emitted only by a loop that ran out of packets, never
\* by a loop that left through a break after stop().
C8_EndedOnlyAtEndOfStream ==
    \A e \in EndedEmitted : threads[e.t].why = "eos"

\* C9: at most one scheduler loop is alive, and a loop that is alive works on
\* the container that is current and open.
C9_OneLoopOnLiveContainer ==
    /\ Cardinality({t \in Tids : Alive(t)}) <= 1
    /\ \A t \in Tids : (Alive(t) /\ threads[t].c # 0)
           => (threads[t].c = _container /\ isOpen[threads[t].c])

\* C10: a loop that is alive when the stop flag is set eventually exits.
C10_StopTerminatesLoop ==
    \A t \in Tids : (Alive(t) /\ _stop_flag) ~> ~Alive(t)

DropsNoted == {emitted[i] : i \in {j \in 1 .. Len(emitted) : emitted[j].sig = "dropped"}}

\* C15: a frame that is more than 500 ms behind the clock at its pacing
\* decision is dropped: no frame_ready/time_update is emitted for it and the
\* loop does not sleep; the loop sleeps only for a frame more than 1 ms ahead
\* of the clock, and every sleep it starts lasts more than zero.
C15_LateFramesDropped ==
    /\ [](\A t \in Tids : threads[t].pc = "sleep" => threads[t].sleepFor > 0)
    /\ [][ \A t \in Tids :
              (NextFrame(t) /\ threads[t].frames # << >> /\ _is_playing /\ ~_stop_flag)
              => LET time_diff == Head(threads[t].frames) - TimePos IN
                 /\ time_diff < -LateThreshold
                       => /\ FramesEmitted' = {}
                          /\ threads'[t].pc = "frame"
                          /\ threads'[t].frames = Tail(threads[t].frames)
                          /\ elapsed' = elapsed
                 /\ threads'[t].pc = "sleep" => time_diff > SyncThreshold ]_vars

\* a frame has just been dropped, more than 500 ms late, while playing
C15_Witness ==
    \E d \in DropsNoted :
        /\ d.pts - TimePos < -LateThreshold
        /\ IsPlaying
        /\ threads[d.t].pc = "frame"

\* the steps the caller takes in a load_file that fails: the call up to the
\* join inside stop(), and the rest up to the return of False
FailedLoadCall == caller = Idle /\ caller'.op = "load" /\ ~Exists(caller'.arg)
FailedLoadReturn == caller.op = "load" /\ ~Exists(caller.arg) /\ caller' = Idle

\* C11: a load_file that fails leaves the player as it was: the container
\* handle and its source, the duration, the playback state, the position and
\* the read position of the container are the same after each step of the
\* failing call as before it.
C11_FailedLoadChangesNothing ==
    [][ (FailedLoadCall \/ FailedLoadReturn)
            => /\ _container' = _container /\ source' = source
               /\ isOpen' = isOpen /\ _duration' = _duration
               /\ _is_playing' = _is_playing /\ _is_paused' = _is_paused
               /\ TimePos' = TimePos
               /\ pos' = pos ]_vars

\* C13: a frame that fails to decode is skipped: the loop stays alive,
\* is_playing stays set, and the frames decoded after it are still waiting
\* to be delivered.
C13_DecodeErrorSkipped ==
    [][ \A t \in Tids :
            DecodeError(t)
            => /\ threads'[t].pc \notin {"unborn", "exited"}
               /\ _is_playing'
               /\ threads'[t].frames = Tail(threads[t].frames) ]_vars

ErrorsEmitted == {emitted[i] : i \in {j \in 1 .. Len(emitted) : emitted[j].sig = "error_occurred"}}

\* C14: the step in which an exception ends the loop clears is_playing and
\* emits exactly one error notification.
C14_OneErrorNotification ==
    [][ \A t \in Tids :
            (threads[t].why # "error" /\ threads'[t].why = "error")
            => /\ ~_is_playing'
               /\ Cardinality(ErrorsEmitted') = 1 ]_vars

\* C16: a loop that played the longer file from play() to the end of the
\* stream at speed 2.0, with no other command on the way, reaches the end
\* within half the duration of the file, give or take one pacing sleep.
C16_DoubleSpeedHalvesTime ==
    \A e \in EndedEmitted :
        (/\ threads[e.t].why = "eos"
         /\ lastCmd = "play"
         /\ _playback_speed = 2 * NormalSpeed
         /\ _container # 0)
        => elapsed <= (_duration \div 2) + SleepCap

\* C20: set_speed(x) stores x clamped to [0.1, 4.0] whatever x is; the speed
\* is within [0.1, 4.0] in every state, so the division by it is defined, and
\* every pacing sleep lasts more than 0 and at most 100 ms.
C20_SpeedClamped ==
    /\ [](_playback_speed >= SpeedMin /\ _playback_speed <= SpeedMax)
    /\ [](\A t \in Tids : threads[t].pc = "sleep"
              => (threads[t].sleepFor > 0 /\ threads[t].sleepFor <= SleepCap))
    /\ [][ \A x \in SpeedArgs :
              SetSpeed(x) => _playback_speed' = IF x < SpeedMin THEN SpeedMin
                                               ELSE IF x > SpeedMax THEN SpeedMax
                                               ELSE x ]_vars

\* set_speed was called with a value below the range while a loop sleeps
\* for less than the cap
C20_Witness ==
    /\ lastCmd = "set_speed"
    /\ _playback_speed = SpeedMin
    /\ \E t \in Tids : threads[t].pc = "sleep" /\ threads[t].sleepFor < SleepCap

\* the step in which load_file returns for a file whose audio does not load
SilentLoadReturn ==
    /\ caller.op = "load" /\ caller' = Idle
    /\ Exists(caller.arg) /\ ~SinkLoadOk(caller.arg)

\* C12: a load_file whose audio fails to load still succeeds (the new
\* container is current) and leaves the sink not loaded; and while the
\* current file is one without usable audio the mixer plays nothing, in
\* particular not the audio of an earlier file.
C12_FailedAudioLoadIsSilent ==
    /\ [][ SilentLoadReturn
              => (_container' = nOpened + 1 /\ ~sink'.is_loaded) ]_vars
    /\ []((_container # 0 /\ caller = Idle /\ ~SinkLoadOk(source[_container]))
              => sink.mixer # "playing")

\* C17: play() on a sink that was paused at offset p puts the mixer back to
\* playing at offset p.
C17_ResumeFromPauseOffset ==
    [][ (PlayStep /\ _container # 0 /\ sink.is_loaded /\ sink.mixer = "paused")
            => (sink'.mixer = "playing" /\ OutPos(sink') = OutPos(sink)) ]_vars

\* C18: in every state the gain of the mixer is 0 when the sink is muted and
\* otherwise the volume last set on the player, so that unmuting restores the
\* gain of that volume.
C18_GainFollowsMuteAndVolume ==
    [](sink.gain = IF sink.is_muted THEN 0 ELSE _volume)

\* the sink, with audio loaded, has just been unmuted and the gain is back
\* at a volume that was set after construction
C18_Witness ==
    /\ lastCmd \in {"muted", "toggle_mute"}
    /\ sink.is_loaded /\ ~sink.is_muted
    /\ _volume \notin {VolumeMin, VolumeMax}
    /\ sink.gain = _volume

\* C19: the volume of the player is within 0..100 in every state, the sink
\* holds the same volume, and volume = v stores v clamped to 0..100.
C19_VolumeClamped ==
    /\ [](_volume >= VolumeMin /\ _volume <= VolumeMax /\ sink.volume = _volume)
    /\ [][ \A v \in VolumeArgs :
              SetVolume(v) => _volume' = IF v < VolumeMin THEN VolumeMin
                                         ELSE IF v > VolumeMax THEN VolumeMax
                                         ELSE v ]_vars

\* a volume below the range has just been assigned with audio loaded
C19_Witness ==
    /\ lastCmd = "volume"
    /\ sink.is_loaded
    /\ _volume = VolumeMin /\ sink.volume = VolumeMin

\* clamp(x, 0, duration)
Clamped(x) == IF x < 0 THEN 0 ELSE IF x > _duration THEN _duration ELSE x

\* C21: a seek(seconds, relative) with media loaded applies the target
\* clamp(base + seconds, 0, duration), base being time_pos when relative and
\* 0 otherwise, to the container, to the audio sink and to the clock:
\* time_pos reads the target right after the call and is within
\* [0, duration].
C21_SeekTargetClamped ==
    [][ \A s \in SeekArgs, r \in BOOLEAN :
            (Seek(s, r) /\ _container # 0)
            => LET target == Clamped((IF r THEN TimePos ELSE 0) + s) IN
               /\ pos'[_container] = SeekPos(target)
               /\ sink.is_loaded => sink'.start_position = target
               /\ TimePos' = target
               /\ TimePos' >= 0 /\ TimePos' <= _duration ]_vars

PauseStep == lastCmd' = "pause" /\ cmds' = cmds + 1

\* C22: pause() called in any state other than Playing (loop started and
\* not paused) leaves the playback flags, the paused position, time_pos and
\* the audio sink as they were.
C22_PauseOnlyFromPlaying ==
    [][ (PauseStep /\ ~IsPlaying)
            => /\ _is_paused' = _is_paused
               /\ _is_playing' = _is_playing
               /\ _pause_time' = _pause_time
               /\ TimePos' = TimePos
               /\ sink' = sink ]_vars

\* C23: toggle_mute() flips the mute flag, and from every state two
\* toggle_mute() calls in a row give back the mute flag and the gain of
\* that state.
C23_ToggleMuteTwice ==
    /\ [][ ToggleMute => sink'.is_muted = ~sink.is_muted ]_vars
    /\ [](LET twice == SinkToggleMute(SinkToggleMute(sink)) IN
             /\ twice.is_muted = sink.is_muted
             /\ twice.gain = sink.gain
             /\ twice.volume = sink.volume)

\* toggle_mute() has just muted a sink with audio loaded whose volume had
\* been changed
C23_Witness ==
    /\ lastCmd = "toggle_mute"
    /\ sink.is_loaded /\ sink.is_muted
    /\ sink.volume \notin {VolumeMin, VolumeMax}
    /\ sink.gain = 0

\* a play(), pause() or seek() call
TransportCall ==
    /\ cmds' = cmds + 1
    /\ lastCmd' \in {"play", "pause", "seek"}

\* C24: with no container (a fresh player, or after shutdown) play(),
\* pause() and seek() change nothing: no scheduler thread is started,
\* is_playing stays False, and the flags, the clock, the container
\* positions and the audio sink are as before.
C24_NoMediaNoOp ==
    /\ []((_container = 0 /\ caller = Idle) => ~_is_playing)
    /\ [][ (TransportCall /\ _container = 0)
              => /\ UNCHANGED << _is_playing, _is_paused, _stop_flag, elapsed,
                                 _pause_time, threads, nThreads, sink, pos,
                                 _container, isOpen >>
                 /\ TimePos' = TimePos ]_vars

\* play() has just been called on a player that was shut down
C24_Witness ==
    /\ lastCmd = "play"
    /\ _container = 0 /\ nOpened > 0
    /\ nThreads > 0
    /\ ~_is_playing /\ _is_paused

\* a set_speed() call
SetSpeedStep == lastCmd' = "set_speed" /\ cmds' = cmds + 1

C26_PausedLoopIdles ==
    [][ (pausedAt >= 0 /\ pausedAt' >= 0 /\ _is_paused)
          => /\ FramesEmitted' = {}
             /\ DropsNoted' = {} ]_vars

\* C27: once stop() has set the stop flag no loop delivers a frame: no step
\* taken while the flag is set emits frame_ready/time_update, not even for
\* the frame a loop was sleeping on when the flag was set.
C27_NoDeliveryAfterStop ==
    [][ (_stop_flag /\ _stop_flag') => FramesEmitted' = {} ]_vars

\* a loop that iterates container c and is at (or blocked inside) its call
\* into the demuxer
InDemux(t, c) == Alive(t) /\ MayStall(t) /\ threads[t].c = c

\* container.seek is executed on the current container: by seek(), or by
\* stop() after its join
ContainerSeek ==
    /\ _container # 0
    /\ \/ lastCmd' = "seek" /\ cmds' = cmds + 1
       \/ caller # Idle /\ caller' = Idle

\* C28: a container seek made by seek() or stop() never runs while a loop
\* thread is in demux/decode on the same container.
C28_SeekExcludesDemux ==
    [][ ContainerSeek => \A t \in Tids : ~InDemux(t, _container) ]_vars

\* the container handles that are open
OpenHandles == {c \in Cids : isOpen[c]}

\* C29: when a call has returned at most one container handle is open (a
\* load over a loaded source has closed the previous one), and after
\* shutdown() none is.
C29_OneContainerOpen ==
    caller = Idle
      => /\ Cardinality(OpenHandles) <= 1
         /\ lastCmd = "shutdown" => OpenHandles = {}

\* play(), pause(), seek() or stop() returns
CommandReturn ==
    \/ TransportCall
    \/ caller.op = "stop" /\ caller' = Idle

\* the current source has an audio stream and the sink has loaded it
WithAudio ==
    /\ _container # 0
    /\ HasAudioStream(source[_container])
    /\ sink.is_loaded

\* C30: on a source with audio the two offsets agree when a command
\* returns: the position of the audio sink equals time_pos after play(),
\* pause(), seek() and stop().
C30_OffsetsAgree ==
    [][ (CommandReturn /\ WithAudio)
          => SinkPosition(sink') = TimePos' ]_vars

====
